---- MODULE Spec2Model ----
(***************************************************************************)
(* The JPEG XL codec adapter of codec-compare-gen (src/codec_jpegxl.cc):   *)
(* EncodeJxl, DecodeJxl, JpegXLVersion and JpegXLLossyQualities, as a      *)
(* state machine.  Each call runs in a task slot; one step of a call is    *)
(* one native-library call together with the CHECK_OR_RETURN that follows  *)
(* it.  The native libraries (libjxl, WP2::Data, WP2::ArgbBuffer) are the  *)
(* environment: what they answer is drawn from a response record r.        *)
(***************************************************************************)
EXTENDS Integers, Sequences, FiniteSets, TLC

VARIABLES
  build,   \* the build configuration: [webp2, jpegxl], HAS_WEBP2 / HAS_JPEGXL
  scope,   \* "seq": one task slot, every input; "par": two slots, few inputs
  task,    \* task slot -> the frame of the call running in it
  heap,    \* native handle -> its state inside libjxl
  alone,   \* task slot -> the same call, same answers, on a heap of its own
  twin,    \* task slot -> the same call, same answers, quiet flag negated
  clock,   \* std::chrono::high_resolution_clock: [now, is_steady]
  timers   \* Timer objects of the caller: id -> the object, with its readings

vars == <<build, scope, task, heap, alone, twin, clock, timers>>

---------------------------------------------------------------------------
(* Bounds of the model. *)

MaxOut == 66        \* the encoder's codestream has 1..MaxOut bytes
MaxGrow == 2        \* the drain loop doubles its buffer at most MaxGrow times

(* Constants of the program. *)

kInitialSize == 64          \* data.Resize(64, ...)
kQualityLossless == 100     \* "[0:99] because 100 is lossless"
kNumQualities == 100        \* std::vector<int> qualities(100)

Tasks == {1, 2}
Handles == Tasks
NullHandle == 0

Min(a, b) == IF a <= b THEN a ELSE b
Max(a, b) == IF a >= b THEN a ELSE b

RECURSIVE Pow2(_)
Pow2(n) == IF n = 0 THEN 1 ELSE 2 * Pow2(n - 1)

---------------------------------------------------------------------------
(* WP2 sample formats, as far as the adapter reads them. *)

Formats == {"WP2_RGBA_32", "WP2_RGB_24", "WP2_Argb_32"}

WP2Formatbpc(format) == 8
WP2FormatBpp(format) == IF format = "WP2_RGB_24" THEN 3 ELSE 4
WP2FormatHasAlpha(format) == format # "WP2_RGB_24"
WP2IsPremultiplied(format) == format = "WP2_Argb_32"

Bit(b) == IF b THEN 1 ELSE 0

NoImage == [format |-> "none", width |-> 0, height |-> 0, stride |-> 0,
            filled |-> "none", pixels |-> <<>>]

\* WP2::ArgbBuffer(format) followed by Resize(width, height).
ArgbBuffer(format, width, height) ==
  [format |-> format, width |-> width, height |-> height,
   stride |-> width * WP2FormatBpp(format), filled |-> "none",
   pixels |-> <<>>]

\* The samples of a test image, pixel after pixel in row order, each pixel
\* its channels in memory order.
Pattern(k, format, width, height) ==
  [i \in 1..(width * height) |->
     [c \in 1..WP2FormatBpp(format) |-> (k * 37 + i * 11 + c * 5) % 256]]

\* A caller's image: the buffer, holding pattern k.
Image(format, width, height, k) ==
  [ArgbBuffer(format, width, height) EXCEPT
     !.filled = "full", !.pixels = Pattern(k, format, width, height)]

\* Three channels whatever the format.
ArgbBufferToJxlPixelFormat_ThreeChannels(image) ==
  <<3, Bit(WP2Formatbpc(image.format) # 8), image.stride>>

ArgbBufferToJxlPixelFormat(image) ==
  LET bytes_per_channel == (WP2Formatbpc(image.format) + 7) \div 8
  IN  <<WP2FormatBpp(image.format) \div bytes_per_channel,  \* num_channels
        Bit(WP2Formatbpc(image.format) # 8),                \* 0: UINT8, 1: UINT16
        image.stride>>                                      \* align

ArgbBufferSize(image) ==
  (image.height - 1) * image.stride + image.width * WP2FormatBpp(image.format)

---------------------------------------------------------------------------
(* WP2::Data: size bytes, of which the first Len(bytes) hold defined values *)
(* and the rest are indeterminate.                                         *)

Junk == -1

EmptyData == [size |-> 0, bytes |-> <<>>]

\* A Resize that never keeps what the buffer held.
DataResize_Discard(data, size, keep_bytes) == [size |-> size, bytes |-> <<>>]

DataResize(data, size, keep_bytes) ==
  [size |-> size,
   bytes |-> IF keep_bytes
               THEN SubSeq(data.bytes, 1, Min(size, Len(data.bytes)))
               ELSE <<>>]

\* The bytes of chunk stored at data.bytes + offset .. + Len(chunk).
DataWrite(data, offset, chunk) ==
  LET old == data.bytes
      upto == Max(Len(old), offset + Len(chunk))
  IN  [data EXCEPT !.bytes =
         [i \in 1..upto |->
            IF i > offset /\ i <= offset + Len(chunk) THEN chunk[i - offset]
            ELSE IF i <= Len(old) THEN old[i]
            ELSE Junk]]

---------------------------------------------------------------------------
(* Native handles.  An encoder handle holds the codestream it still has to *)
(* hand out: produced bytes are gone, pending bytes are to come.           *)

\* A codestream as libjxl knows it: its length, and what it holds.
NoStream == [n |-> 0, info |-> <<>>, lossless |-> FALSE, distance |-> 0,
             pixels |-> <<>>]

FreeHandle == [live |-> FALSE, produced |-> 0, pending |-> 0, bound |-> FALSE,
               info |-> <<>>, lossless |-> FALSE, distance |-> 0,
               stream |-> NoStream]
EmptyHeap == [h \in Handles |-> FreeHandle]

StreamByte(p) == p % 256

\* The bytes of a codestream of n bytes.
StreamBytes(n) == [i \in 1..n |-> StreamByte(i)]

\* libjxl's reading of a JxlPixelFormat <<num_channels, data_type, align>>:
\* the bytes a buffer of xsize by ysize pixels must have.
JxlBufferBytes(xsize, ysize, pixel_format) ==
  LET row == xsize * pixel_format[1] * (pixel_format[2] + 1)
      align == pixel_format[3]
      stride == IF align > 1 THEN ((row + align - 1) \div align) * align ELSE row
  IN  (ysize - 1) * stride + row

\* The samples libjxl takes from, or gives to, a buffer of num_channels
\* channels: a missing alpha channel is opaque, one not asked for is dropped.
JxlSamples(pixels, num_channels) ==
  [i \in 1..Len(pixels) |->
     [c \in 1..num_channels |->
        IF c <= Len(pixels[i]) THEN pixels[i][c] ELSE 255]]

\* What a lossy frame keeps of a sample.
JxlLossy(sample) == (sample \div 4) * 4

\* What the decoder writes for a codestream: the samples as they were when
\* the frame is lossless, what the quantisation left of them otherwise.
JxlRendered(stream, num_channels) ==
  LET kept == IF stream.lossless THEN stream.pixels
              ELSE [i \in 1..Len(stream.pixels) |->
                      [c \in 1..Len(stream.pixels[i]) |->
                         JxlLossy(stream.pixels[i][c])]]
  IN  JxlSamples(kept, num_channels)

LeastFree(hp) ==
  IF \E h \in Handles : ~hp[h].live
    THEN CHOOSE h \in Handles :
           ~hp[h].live /\ \A g \in Handles : ~hp[g].live => h <= g
    ELSE NullHandle

\* A handle that is always the same one, whoever holds it.
AcquireHandle_Static(hp, ok) == IF ok THEN 1 ELSE NullHandle

\* JxlEncoderMake(nullptr) / JxlDecoderMake(nullptr): a fresh handle, or null.
AcquireHandle(hp, ok) == IF ok THEN LeastFree(hp) ELSE NullHandle

Created(hp, h) ==
  IF h = NullHandle THEN hp ELSE [hp EXCEPT ![h] = [FreeHandle EXCEPT !.live = TRUE]]

\* A raw pointer: nothing destroys the handle.
Destroyed_Leak(hp, h) == hp

\* ~JxlEncoderPtr / ~JxlDecoderPtr.
Destroyed(hp, h) ==
  IF h = NullHandle THEN hp ELSE [hp EXCEPT ![h] = FreeHandle]

---------------------------------------------------------------------------
(* class Timer.  Time is counted in ticks of the clock. *)

NoTimer == [start_ |-> 0]

\* Timer() : start_(std::chrono::high_resolution_clock::now())
Timer(now) == [start_ |-> now]

\* double seconds() const: now() - start_
seconds(timer, now) == now - timer.start_

---------------------------------------------------------------------------
(* The frame of one call. *)

NoInfo == [xsize |-> 0, ysize |-> 0, alpha_bits |-> 0]
NoVersion == [na |-> FALSE, major |-> 0, minor |-> 0, patch |-> 0]

IdleTask ==
  [kind |-> "none", pc |-> "idle",
   \* arguments
   quiet |-> FALSE, original_image |-> NoImage, quality |-> 0, effort |-> 0,
   encoded_image |-> EmptyData,
   \* locals
   handle |-> NullHandle, status |-> "none", data |-> EmptyData,
   next_out |-> 0, avail_out |-> 0, info |-> NoInfo, image |-> NoImage,
   color_conversion_duration |-> NoTimer,
   \* what the call returned
   result |-> "none", message |-> "none", payload |-> EmptyData,
   decoded |-> NoImage, duration |-> 0,
   version |-> NoVersion, qualities |-> <<>>,
   \* the caller's Timer around the call, and its reading after the return
   timer |-> NoTimer, total |-> 0, measured |-> FALSE,
   \* the side channel, and the history of the call
   diagnostics |-> <<>>, calls |-> <<>>, events |-> <<>>, checks |-> <<>>,
   written |-> 0, peak |-> 0, slack |-> FALSE, faulted |-> FALSE,
   \* what the bytes of encoded_image or of payload hold, and the image
   \* they were encoded from
   codestream |-> NoStream, source |-> NoImage]

Goto(m, label) == [m EXCEPT !.t.pc = label]

Called(m, fn, args) ==
  [m EXCEPT !.t.calls = Append(@, [fn |-> fn, args |-> args])]

\* A return statement: the locals go out of scope, the handle is destroyed.
Return(m, result) ==
  [t |-> [m.t EXCEPT !.pc = "done", !.result = result,
                     !.handle = NullHandle, !.status = "none",
                     !.data = EmptyData, !.next_out = 0, !.avail_out = 0,
                     !.info = NoInfo, !.image = NoImage,
                     !.color_conversion_duration = NoTimer],
   heap |-> Destroyed(m.heap, m.t.handle)]

\* CHECK_OR_RETURN(condition, quiet) << message: when the condition is false,
\* return a failure carrying the message, and unless quiet emit it.
CheckOrReturn(m, condition, message, next) ==
  IF condition
    THEN \* this check is logged before those that next went through
         [next EXCEPT !.t.checks =
            SubSeq(@, 1, Len(m.t.checks)) \o <<TRUE>>
              \o SubSeq(@, Len(m.t.checks) + 1, Len(@))]
    ELSE Return([m EXCEPT !.t.message = message,
                          !.t.checks = Append(@, FALSE),
                          !.t.diagnostics =
                            IF m.t.quiet THEN @ ELSE Append(@, message)],
                "fail")

\* CHECK_OR_RETURN(condition, quiet) << ... << JxlEncoderGetError(encoder.get())
\* << ...: the operands of the message are evaluated once the check has
\* failed, the encoder still alive.
CheckOrReturnError(m, condition, message, next) ==
  CheckOrReturn(IF condition THEN m ELSE Called(m, "JxlEncoderGetError", <<>>),
                condition, message, next)

---------------------------------------------------------------------------
(* What the native libraries answer to one step of a call. *)

DecEvents == {"JXL_DEC_SUCCESS", "JXL_DEC_ERROR", "JXL_DEC_NEED_MORE_INPUT",
              "JXL_DEC_BASIC_INFO", "JXL_DEC_NEED_IMAGE_OUT_BUFFER",
              "JXL_DEC_FULL_IMAGE"}

R0 == [ok |-> TRUE, alloc |-> TRUE, k |-> 0, n |-> 0,
       ev |-> "JXL_DEC_SUCCESS", info |-> NoInfo, now |-> 0]

EncStatus(ok) == IF ok THEN "JXL_ENC_SUCCESS" ELSE "JXL_ENC_ERROR"
DecStatus(ok) == IF ok THEN "JXL_DEC_SUCCESS" ELSE "JXL_DEC_ERROR"

\* Distances are counted in units of 1/3000.
kDistanceUnit == 3000

\* JxlEncoderDistanceFromQuality()
JxlEncoderDistanceFromQuality(quality) ==
  IF quality >= 100 THEN 0
  ELSE IF quality >= 30 THEN 300 + (100 - quality) * 270
  ELSE 53 * quality * quality - 3450 * quality + 75000

---------------------------------------------------------------------------
(* EncodeJxl, step by step. *)

\* Any format with an alpha channel taken for RGBA.
SupportedByLibjxl_AnyAlpha(format) ==
  WP2FormatHasAlpha(format) \/ format = "WP2_RGB_24"

SupportedByLibjxl(format) == format = "WP2_RGBA_32" \/ format = "WP2_RGB_24"

StepEncFormat(m, r) ==
  CheckOrReturn(m, SupportedByLibjxl(m.t.original_image.format),
                "libjxl requires RGB(A)", Goto(m, "enc_make"))

StepEncMake(m, r) ==
  LET h == AcquireHandle(m.heap, r.ok)
      m1 == Called([m EXCEPT !.t.handle = h, !.heap = Created(m.heap, h)],
                   "JxlEncoderMake", <<>>)
  IN  CheckOrReturn(m1, h # NullHandle, "JxlEncoderMake() failed",
                    Goto(m1, "enc_basic_info"))

BasicInfoOf(image, quality) ==
  LET alpha == WP2FormatHasAlpha(image.format)
  IN  <<image.width, image.height, WP2Formatbpc(image.format),
        Bit(quality = kQualityLossless),                      \* uses_original_profile
        3,                                                    \* num_color_channels
        IF alpha THEN 1 ELSE 0,                               \* num_extra_channels
        IF alpha THEN WP2Formatbpc(image.format) ELSE 0,      \* alpha_bits
        IF alpha THEN Bit(WP2IsPremultiplied(image.format)) ELSE 0>>

StepEncBasicInfo(m, r) ==
  LET basic_info == BasicInfoOf(m.t.original_image, m.t.quality)
      m1 == Called([m EXCEPT !.t.status = EncStatus(r.ok),
                             !.heap[m.t.handle].info =
                               IF r.ok THEN basic_info ELSE @],
                   "JxlEncoderSetBasicInfo", basic_info)
  IN  CheckOrReturnError(m1, m1.t.status = "JXL_ENC_SUCCESS",
                         "JxlEncoderSetBasicInfo() failed",
                         Goto(m1, "enc_color"))

StepEncColor(m, r) ==
  LET m1 == Called([m EXCEPT !.t.status = EncStatus(r.ok)],
                   "JxlEncoderSetColorEncoding", <<>>)
  IN  CheckOrReturnError(m1, m1.t.status = "JXL_ENC_SUCCESS",
                         "JxlEncoderSetColorEncoding() failed",
                         Goto(m1, "enc_frame_settings"))

StepEncFrameSettings(m, r) ==
  LET m1 == Called(m, "JxlEncoderFrameSettingsCreate", <<>>)
  IN  CheckOrReturn(m1, r.ok,
                    "JxlEncoderFrameSettingsCreate() returned null",
                    Goto(m1, "enc_quality"))

\* JxlEncoderSetFrameLossless(frame_settings, JXL_TRUE): libjxl refuses it
\* unless the basic info has uses_original_profile.
JxlEncoderSetFrameLossless(m, r) ==
  LET h == m.t.handle
      ok == r.ok /\ m.heap[h].info[4] = 1
  IN  Called([m EXCEPT !.t.status = EncStatus(ok),
                       !.heap[h].lossless = IF ok THEN TRUE ELSE @,
                       !.heap[h].distance = IF ok THEN 0 ELSE @],
             "JxlEncoderSetFrameLossless", <<1>>)

\* JxlEncoderSetFrameDistance(frame_settings, distance): libjxl takes a
\* distance of 0 to 25.
JxlEncoderSetFrameDistance(m, r, distance) ==
  LET h == m.t.handle
      ok == r.ok /\ distance >= 0 /\ distance <= 25 * kDistanceUnit
  IN  Called([m EXCEPT !.t.status = EncStatus(ok),
                       !.heap[h].distance = IF ok THEN distance ELSE @],
             "JxlEncoderSetFrameDistance", <<distance>>)

\* The quality handed over as the distance.
StepEncQuality_QualityAsDistance(m, r) ==
  IF m.t.quality = kQualityLossless
    THEN LET m1 == JxlEncoderSetFrameLossless(m, r)
         IN  CheckOrReturnError(m1, m1.t.status = "JXL_ENC_SUCCESS",
                                "JxlEncoderSetFrameLossless() failed",
                                Goto(m1, "enc_effort"))
    ELSE LET distance == m.t.quality * kDistanceUnit
             m1 == JxlEncoderSetFrameDistance(m, r, distance)
         IN  CheckOrReturnError(m1, m1.t.status = "JXL_ENC_SUCCESS",
                                "JxlEncoderSetFrameDistance() failed",
                                Goto(m1, "enc_effort"))

\* The distance set after the lossless mode, for every quality.
StepEncQuality_DistanceToo(m, r) ==
  LET distance == JxlEncoderDistanceFromQuality(m.t.quality)
      m0 == IF m.t.quality = kQualityLossless
              THEN JxlEncoderSetFrameLossless(m, r) ELSE m
      m1 == JxlEncoderSetFrameDistance(m0, r, distance)
  IN  CheckOrReturnError(m1, m1.t.status = "JXL_ENC_SUCCESS",
                         "JxlEncoderSetFrameDistance() failed",
                         Goto(m1, "enc_effort"))

StepEncQuality(m, r) ==
  IF m.t.quality = kQualityLossless
    THEN LET m1 == JxlEncoderSetFrameLossless(m, r)
         IN  CheckOrReturnError(m1, m1.t.status = "JXL_ENC_SUCCESS",
                                "JxlEncoderSetFrameLossless() failed",
                                Goto(m1, "enc_effort"))
    ELSE LET distance == JxlEncoderDistanceFromQuality(m.t.quality)
             m1 == JxlEncoderSetFrameDistance(m, r, distance)
         IN  CheckOrReturnError(m1, m1.t.status = "JXL_ENC_SUCCESS",
                                "JxlEncoderSetFrameDistance() failed",
                                Goto(m1, "enc_effort"))

StepEncEffort(m, r) ==
  LET m1 == Called([m EXCEPT !.t.status = EncStatus(r.ok)],
                   "JxlEncoderFrameSettingsSetOption", <<m.t.effort>>)
  IN  CheckOrReturnError(m1, m1.t.status = "JXL_ENC_SUCCESS",
                         "JxlEncoderFrameSettingsSetOption(effort) failed",
                         Goto(m1, "enc_add_frame"))

\* The input closed whether or not the frame was taken.
StepEncAddFrame_ClosesAnyway(m, r) ==
  LET image == m.t.original_image
      h == m.t.handle
      e == m.heap[h]
      pixel_format == ArgbBufferToJxlPixelFormat(image)
      size == ArgbBufferSize(image)
      ok == r.ok /\ size >= JxlBufferBytes(e.info[1], e.info[2], pixel_format)
      stream == [n |-> r.n, info |-> e.info, lossless |-> e.lossless,
                 distance |-> e.distance,
                 pixels |-> JxlSamples(JxlSamples(image.pixels, pixel_format[1]),
                                       e.info[5] + e.info[6])]
      m1 == Called([m EXCEPT !.t.status = EncStatus(ok)],
                   "JxlEncoderAddImageFrame", pixel_format \o <<size>>)
      m2 == Called([m1 EXCEPT !.heap[h].pending = r.n,
                              !.heap[h].stream = stream],
                   "JxlEncoderCloseInput", <<>>)
  IN  CheckOrReturnError(m2, m2.t.status = "JXL_ENC_SUCCESS",
                         "JxlEncoderAddImageFrame() failed",
                         Goto(m2, "enc_alloc"))

\* JxlEncoderAddImageFrame, then JxlEncoderCloseInput: from here on the
\* encoder holds a codestream of r.n bytes to hand out.
\* libjxl refuses a buffer shorter than its pixel format needs.
StepEncAddFrame(m, r) ==
  LET image == m.t.original_image
      h == m.t.handle
      e == m.heap[h]
      pixel_format == ArgbBufferToJxlPixelFormat(image)
      size == ArgbBufferSize(image)
      ok == r.ok /\ size >= JxlBufferBytes(e.info[1], e.info[2], pixel_format)
      stream == [n |-> r.n, info |-> e.info, lossless |-> e.lossless,
                 distance |-> e.distance,
                 pixels |-> JxlSamples(JxlSamples(image.pixels, pixel_format[1]),
                                       e.info[5] + e.info[6])]
      m1 == Called([m EXCEPT !.t.status = EncStatus(ok)],
                   "JxlEncoderAddImageFrame", pixel_format \o <<size>>)
      m2 == Called([m1 EXCEPT !.heap[h].pending = r.n,
                              !.heap[h].stream = stream],
                   "JxlEncoderCloseInput", <<>>)
  IN  CheckOrReturnError(m1, m1.t.status = "JXL_ENC_SUCCESS",
                         "JxlEncoderAddImageFrame() failed",
                         Goto(m2, "enc_alloc"))

\* A quiet caller is not told that the allocation failed.
StepEncAlloc_QuietContinues(m, r) ==
  LET data == DataResize(m.t.data, kInitialSize, FALSE)
      m0 == Called(m, "WP2::Data::Resize", <<kInitialSize, 0>>)
      m1 == [m0 EXCEPT !.t.data = data, !.t.next_out = 0,
                       !.t.avail_out = data.size - 0,
                       !.t.peak = data.size]
  IN  CheckOrReturn(m0, r.alloc \/ m.t.quiet, "", Goto(m1, "enc_drain"))

\* The allocation failure returned without going through CHECK_OR_RETURN.
StepEncAlloc_Silent(m, r) ==
  LET data == DataResize(m.t.data, kInitialSize, FALSE)
      m0 == Called(m, "WP2::Data::Resize", <<kInitialSize, 0>>)
      m1 == [m0 EXCEPT !.t.data = data, !.t.next_out = 0,
                       !.t.avail_out = data.size - 0,
                       !.t.peak = data.size,
                       !.t.checks = Append(@, TRUE)]
  IN  IF r.alloc THEN Goto(m1, "enc_drain")
      ELSE Return([m0 EXCEPT !.t.message = "",
                             !.t.checks = Append(@, FALSE)], "fail")

StepEncAlloc(m, r) ==
  LET data == DataResize(m.t.data, kInitialSize, FALSE)
      m0 == Called(m, "WP2::Data::Resize", <<kInitialSize, 0>>)
      m1 == [m0 EXCEPT !.t.data = data, !.t.next_out = 0,
                       !.t.avail_out = data.size - 0,
                       !.t.peak = data.size]
  IN  CheckOrReturn(m0, r.alloc, "", Goto(m1, "enc_drain"))

\* Growth by four instead of two.
GrownSize_Times4(size) == size * 4

\* data.Resize(data.size * 2, /*keep_bytes=*/true)
\* A Resize to the size the buffer has.
GrownSize_Same(size) == size

GrownSize(size) == size * 2

\* One iteration of the do-while loop: JxlEncoderProcessOutput writes at most
\* avail_out of the pending bytes at next_out and advances both.
StepEncDrain(m, r) ==
  LET s == m.t
      e == m.heap[s.handle]
      k == Min(r.k, Min(s.avail_out, e.pending))
      chunk == [i \in 1..k |-> StreamByte(e.produced + i)]
      status == IF ~r.ok THEN "JXL_ENC_ERROR"
                ELSE IF e.pending - k > 0 THEN "JXL_ENC_NEED_MORE_OUTPUT"
                ELSE "JXL_ENC_SUCCESS"
      m1 == Called([m EXCEPT !.heap[s.handle].produced = @ + k,
                             !.heap[s.handle].pending = @ - k,
                             !.t.data = DataWrite(s.data, s.next_out, chunk),
                             !.t.next_out = @ + k,
                             !.t.avail_out = @ - k,
                             !.t.status = status,
                             !.t.events = Append(@, status),
                             !.t.written = @ + k,
                             !.t.slack = @ \/ (status = "JXL_ENC_NEED_MORE_OUTPUT"
                                               /\ s.avail_out - k > 0)],
                   "JxlEncoderProcessOutput", <<>>)
  IN  IF status = "JXL_ENC_NEED_MORE_OUTPUT"
        THEN LET offset == m1.t.next_out
                 size == GrownSize(m1.t.data.size)
                 data == DataResize(m1.t.data, size, TRUE)
                 m0 == Called(m1, "WP2::Data::Resize", <<size, 1>>)
                 m2 == [m0 EXCEPT !.t.data = data,
                                  !.t.next_out = offset,
                                  !.t.avail_out = data.size - offset,
                                  !.t.peak = Max(@, data.size)]
             IN  CheckOrReturn(m0, r.alloc, "", m2)
        ELSE Goto(m1, "enc_finish")

\* The buffer returned as it is after the loop, not cut to next_out.
StepEncFinish_NoTrim(m, r) ==
  CheckOrReturnError(m, m.t.status = "JXL_ENC_SUCCESS",
                     "JxlEncoderProcessOutput() failed",
                     Return([m EXCEPT !.t.payload = m.t.data], "ok"))

\* The status checked before the buffer is cut, and the cut not checked.
StepEncFinish_TrimUnchecked(m, r) ==
  LET m0 == Called(m, "WP2::Data::Resize", <<m.t.next_out, 1>>)
      m1 == [m0 EXCEPT !.t.data =
               IF r.alloc THEN DataResize(m.t.data, m.t.next_out, TRUE) ELSE @]
  IN  CheckOrReturnError(m1, m1.t.status = "JXL_ENC_SUCCESS",
                         "JxlEncoderProcessOutput() failed",
                         Return([m1 EXCEPT !.t.payload = m1.t.data], "ok"))

\* The two checks after the loop: the Resize that cuts the buffer to the
\* bytes written, then the last status of JxlEncoderProcessOutput.
StepEncFinish(m, r) ==
  LET m0 == Called(m, "WP2::Data::Resize", <<m.t.next_out, 1>>)
      m1 == [m0 EXCEPT !.t.data = DataResize(m.t.data, m.t.next_out, TRUE)]
  IN  CheckOrReturn(m0, r.alloc, "",
        CheckOrReturnError(m1, m1.t.status = "JXL_ENC_SUCCESS",
                           "JxlEncoderProcessOutput() failed",
                           Return([m1 EXCEPT
                                     !.t.payload = m1.t.data,
                                     !.t.codestream = m1.heap[m1.t.handle].stream,
                                     !.t.source = m1.t.original_image],
                                  "ok")))

\* A stub that reports success.
StepEncStub_Succeeds(m, r) == Return(m, "ok")

\* Without HAS_JPEGXL.
StepEncStub(m, r) ==
  CheckOrReturn(m, FALSE, "Encoding images requires HAS_JPEGXL", m)

---------------------------------------------------------------------------
(* DecodeJxl, step by step. *)

StepDecMake(m, r) ==
  LET h == AcquireHandle(m.heap, r.ok)
      m1 == Called([m EXCEPT !.t.handle = h, !.heap = Created(m.heap, h)],
                   "JxlDecoderMake", <<>>)
  IN  CheckOrReturn(m1, h # NullHandle, "JxlDecoderMake() failed",
                    Goto(m1, "dec_subscribe"))

StepDecSubscribe(m, r) ==
  LET m1 == Called([m EXCEPT !.t.status = DecStatus(r.ok)],
                   "JxlDecoderSubscribeEvents", <<>>)
  IN  CheckOrReturn(m1, m1.t.status = "JXL_DEC_SUCCESS",
                    "JxlDecoderSubscribeEvents() failed",
                    Goto(m1, "dec_set_input"))

\* What libjxl finds in the bytes it is given: the codestream they are the
\* bytes of, when they are all there and as the encoder wrote them.
JxlParse(data, stream) ==
  IF stream # NoStream /\ data.size = stream.n /\ data.bytes = StreamBytes(stream.n)
    THEN stream ELSE NoStream

StepDecSetInput(m, r) ==
  LET m1 == Called([m EXCEPT !.t.status = DecStatus(r.ok),
                             !.heap[m.t.handle].stream =
                               JxlParse(m.t.encoded_image, m.t.codestream)],
                   "JxlDecoderSetInput", <<m.t.encoded_image.size>>)
      m2 == Called(m1, "JxlDecoderCloseInput", <<>>)
  IN  CheckOrReturn(m1, m1.t.status = "JXL_DEC_SUCCESS",
                    "JxlDecoderSetInput() failed",
                    Goto(m2, "dec_process1"))

\* status = JxlDecoderProcessInput(decoder.get()), answered by event r.ev.
ProcessInput(m, r) ==
  Called([m EXCEPT !.t.status = r.ev, !.t.events = Append(@, r.ev)],
         "JxlDecoderProcessInput", <<>>)

StepDecProcess1(m, r) ==
  LET m1 == ProcessInput(m, r)
  IN  CheckOrReturn(m1, m1.t.status = "JXL_DEC_BASIC_INFO",
                    "First call to JxlDecoderProcessInput() unexpectedly returned",
                    Goto(m1, "dec_basic_info"))

StepDecGetBasicInfo(m, r) ==
  LET m1 == Called([m EXCEPT !.t.status = DecStatus(r.ok),
                             !.t.info = IF r.ok THEN r.info ELSE @],
                   "JxlDecoderGetBasicInfo", <<>>)
  IN  CheckOrReturn(m1, m1.t.status = "JXL_DEC_SUCCESS",
                    "JxlDecoderGetBasicInfo() failed",
                    Goto(m1, "dec_process2"))

StepDecProcess2(m, r) ==
  LET m1 == ProcessInput(m, r)
  IN  CheckOrReturn(m1, m1.t.status = "JXL_DEC_NEED_IMAGE_OUT_BUFFER",
                    "Second call to JxlDecoderProcessInput() unexpectedly returned",
                    Goto(m1, "dec_image"))

\* The destination image: its format from info.alpha_bits, then Resize.
\* An image without alpha whatever the basic info says.
StepDecImage_AlwaysRgb(m, r) ==
  LET format == "WP2_RGB_24"
      m0 == Called(m, "WP2::ArgbBuffer::Resize", <<m.t.info.xsize, m.t.info.ysize>>)
      m1 == [m0 EXCEPT !.t.image =
               ArgbBuffer(format, m.t.info.xsize, m.t.info.ysize)]
  IN  CheckOrReturn(m0, r.alloc, "", Goto(m1, "dec_out_buffer"))

StepDecImage(m, r) ==
  LET format == IF m.t.info.alpha_bits > 0 THEN "WP2_RGBA_32" ELSE "WP2_RGB_24"
      m0 == Called(m, "WP2::ArgbBuffer::Resize", <<m.t.info.xsize, m.t.info.ysize>>)
      m1 == [m0 EXCEPT !.t.image =
               ArgbBuffer(format, m.t.info.xsize, m.t.info.ysize)]
  IN  CheckOrReturn(m0, r.alloc, "", Goto(m1, "dec_out_buffer"))

\* libjxl refuses a buffer shorter than its pixel format needs.
StepDecOutBuffer(m, r) ==
  LET image == m.t.image
      h == m.t.handle
      pixel_format == ArgbBufferToJxlPixelFormat(image)
      size == ArgbBufferSize(image)
      ok == r.ok /\ size >= JxlBufferBytes(m.t.info.xsize, m.t.info.ysize,
                                           pixel_format)
      m1 == Called([m EXCEPT !.t.status = DecStatus(ok),
                             !.heap[h].bound = ok],
                   "JxlDecoderSetImageOutBuffer", pixel_format \o <<size>>)
  IN  CheckOrReturn(m1, m1.t.status = "JXL_DEC_SUCCESS",
                    "JxlDecoderSetImageOutBuffer() failed",
                    Goto(m1, "dec_process3"))

\* The third event taken as it comes, whatever it is.
StepDecProcess3_Unchecked(m, r) ==
  LET m0 == ProcessInput(m, r)
      m1 == [m0 EXCEPT !.t.image.filled =
               IF r.ev = "JXL_DEC_FULL_IMAGE" THEN "full" ELSE "partial"]
  IN  Goto([m1 EXCEPT !.t.color_conversion_duration = Timer(r.now)],
           "dec_process4")

\* What the decoder has written into the buffer bound to it when it answers
\* with event ev: all the samples of its codestream at FULL_IMAGE.
JxlImageOut(m, ev) ==
  LET num_channels == ArgbBufferToJxlPixelFormat(m.t.image)[1]
  IN  [m EXCEPT !.t.image.filled = IF ev = "JXL_DEC_FULL_IMAGE" THEN "full"
                                   ELSE "partial",
                !.t.image.pixels =
                  IF ev = "JXL_DEC_FULL_IMAGE"
                    THEN JxlRendered(m.heap[m.t.handle].stream, num_channels)
                    ELSE @]

\* The third JxlDecoderProcessInput, then the Timer of line 252.
StepDecProcess3(m, r) ==
  LET m1 == JxlImageOut(ProcessInput(m, r), r.ev)
  IN  CheckOrReturn(m1, m1.t.status = "JXL_DEC_FULL_IMAGE",
                    "Third call to JxlDecoderProcessInput() unexpectedly returned",
                    Goto([m1 EXCEPT !.t.color_conversion_duration = Timer(r.now)],
                         "dec_process4"))

\* The fourth JxlDecoderProcessInput, then the reading of the Timer.
StepDecProcess4(m, r) ==
  LET m1 == ProcessInput(m, r)
  IN  CheckOrReturn(m1, m1.t.status = "JXL_DEC_SUCCESS",
                    "Third call to JxlDecoderProcessInput() failed",
                    Return([m1 EXCEPT !.t.decoded = m1.t.image,
                                      !.t.duration =
                                        seconds(m1.t.color_conversion_duration,
                                                r.now)],
                           "ok"))

\* Without HAS_JPEGXL.
StepDecStub(m, r) ==
  CheckOrReturn(m, FALSE, "Decoding images requires HAS_JPEGXL", m)

---------------------------------------------------------------------------
(* JpegXLVersion and JpegXLLossyQualities. *)

\* std::to_string of the three fields of JxlEncoderVersion() = r.n.
StepVersion(m, r) ==
  Return([m EXCEPT !.t.version =
            [na |-> FALSE, major |-> r.n \div 1000000,
             minor |-> (r.n % 1000000) \div 1000, patch |-> r.n % 1000]],
         "ok")

StepVersionStub(m, r) ==
  Return([m EXCEPT !.t.version = [NoVersion EXCEPT !.na = TRUE]], "ok")

\* std::iota(first, last, value) over a vector of n elements.
Iota(n, value) == [i \in 1..n |-> value + (i - 1)]

\* One element too many: 0..100.
StepQualities_WithLossless(m, r) ==
  Return([m EXCEPT !.t.qualities = Iota(kNumQualities + 1, 0)], "ok")

StepQualities(m, r) ==
  Return([m EXCEPT !.t.qualities = Iota(kNumQualities, 0)], "ok")

---------------------------------------------------------------------------
(* The inputs of the calls and the answers of the libraries, per scope:    *)
(*   "seq"    one slot, every function, every answer                       *)
(*   "par"    two slots, few inputs                                        *)
(*   "enc"    one slot, EncodeJxl over qualities and efforts               *)
(*   "round"  one slot, EncodeJxl and DecodeJxl of what it returned        *)
(*   "timed"  one slot, DecodeJxl under a Timer, the clock running         *)
(*   "timer"  Timer objects alone, the clock running                       *)

Active(sc) == IF sc = "par" THEN Tasks ELSE {1}

Images(sc) ==
  CASE sc = "par" -> {Image(f, 2, 2, 0) : f \in {"WP2_RGB_24", "WP2_Argb_32"}}
    [] sc = "enc" -> {Image(f, 2, 2, 0) : f \in {"WP2_RGB_24", "WP2_RGBA_32"}}
    [] sc = "round" ->
         {Image(f, w, 2, k) :
            f \in {"WP2_RGB_24", "WP2_RGBA_32"}, w \in 1..2, k \in 0..1}
    [] OTHER -> {Image(f, 2, 2, 0) : f \in Formats}
Qualities(sc) ==
  CASE sc = "par" -> {kQualityLossless}
    [] sc = "enc" -> {0, 30, kNumQualities - 1, kQualityLossless}
    [] OTHER -> {kQualityLossless, kNumQualities - 1}
Efforts(sc) == IF sc = "enc" THEN {1, 9} ELSE {7}

\* A codestream of two bytes holding one opaque pixel, lossless.
TestStream ==
  [n |-> 2, info |-> <<1, 1, 8, 1, 3, 0, 0, 0>>, lossless |-> TRUE,
   distance |-> 0, pixels |-> Pattern(0, "WP2_RGB_24", 1, 1)]

\* What DecodeJxl is given: the bytes, and the codestream they are the bytes
\* of (NoStream: bytes that come from no encoder).
Payloads(sc) ==
  CASE sc = "seq" -> {[data |-> EmptyData, stream |-> NoStream],
                      [data |-> [size |-> 2, bytes |-> <<255, 10>>],
                       stream |-> NoStream]}
    [] sc = "timed" -> {[data |-> [size |-> 2, bytes |-> StreamBytes(2)],
                         stream |-> TestStream]}
    [] OTHER -> {[data |-> [size |-> 2, bytes |-> <<255, 10>>],
                  stream |-> NoStream]}
Versions(sc) == IF sc = "seq" THEN {8002, 1002003} ELSE {8002}
Infos(sc) ==
  IF sc = "seq"
    THEN [xsize : 1..2, ysize : 1..2, alpha_bits : {0, 8}]
    ELSE {[xsize |-> 2, ysize |-> 2, alpha_bits |-> 8]}
OutSizes(sc) ==
  CASE sc = "seq" -> 1..MaxOut
    [] OTHER -> {1, kInitialSize + 1}
\* How many bytes one JxlEncoderProcessOutput call may write, out of most.
Chunks(sc, most) ==
  CASE sc = "seq" -> {0, 1, most \div 2, most - 1, most} \cap (0..most)
    [] sc = "round" -> {most}
    [] OTHER -> {0, most}

OkSteps == {"enc_make", "enc_basic_info", "enc_color", "enc_frame_settings",
            "enc_quality", "enc_effort", "dec_make", "dec_subscribe",
            "dec_set_input", "dec_out_buffer"}
AllocSteps == {"enc_alloc", "enc_finish", "dec_image"}
EventSteps == {"dec_process1", "dec_process2", "dec_process3", "dec_process4"}

\* The drain loop is cut off after MaxGrow doublings: there is no memory for
\* a buffer of more than kInitialSize * 2^MaxGrow bytes, the Resize to more
\* fails.
DrainResponses(s, hp, sc) ==
  LET most == Min(s.avail_out, hp[s.handle].pending)
      more(k) == hp[s.handle].pending - k > 0
      room == GrownSize(s.data.size) <= kInitialSize * Pow2(MaxGrow)
  IN  {[R0 EXCEPT !.ok = FALSE, !.k = k] : k \in Chunks(sc, most)}
      \cup {[R0 EXCEPT !.k = k] : k \in {c \in Chunks(sc, most) : more(c) => room}}
      \cup {[R0 EXCEPT !.k = k, !.alloc = FALSE] :
              k \in {c \in Chunks(sc, most) : more(c)}}

\* The event libjxl's decoder answers with, for a known codestream: basic
\* info, then the request for the output buffer until one is bound, then
\* the full image, then success; an error when the bytes were not all there.
JxlDecoderEvent(s, e) ==
  IF e.stream = NoStream THEN "JXL_DEC_ERROR"
  ELSE IF Len(s.events) = 0 THEN "JXL_DEC_BASIC_INFO"
  ELSE IF ~e.bound THEN "JXL_DEC_NEED_IMAGE_OUT_BUFFER"
  ELSE IF "JXL_DEC_FULL_IMAGE" \notin {s.events[i] : i \in 1..Len(s.events)}
    THEN "JXL_DEC_FULL_IMAGE"
  ELSE "JXL_DEC_SUCCESS"

JxlDecoderInfo(stream) ==
  [xsize |-> stream.info[1], ysize |-> stream.info[2],
   alpha_bits |-> stream.info[7]]

Responses(s, hp, sc) ==
  CASE s.pc \in OkSteps -> {[R0 EXCEPT !.ok = b] : b \in BOOLEAN}
    [] s.pc \in AllocSteps -> {[R0 EXCEPT !.alloc = b] : b \in BOOLEAN}
    [] s.pc \in EventSteps ->
         IF s.codestream = NoStream
           THEN {[R0 EXCEPT !.ev = e] : e \in DecEvents}
           ELSE {[R0 EXCEPT !.ev = JxlDecoderEvent(s, hp[s.handle])],
                 [R0 EXCEPT !.ev = "JXL_DEC_ERROR", !.ok = FALSE]}
    [] s.pc = "enc_add_frame" ->
         {[R0 EXCEPT !.n = n] : n \in OutSizes(sc)} \cup {[R0 EXCEPT !.ok = FALSE]}
    [] s.pc = "enc_drain" -> DrainResponses(s, hp, sc)
    [] s.pc = "dec_basic_info" ->
         (IF s.codestream = NoStream
            THEN {[R0 EXCEPT !.info = i] : i \in Infos(sc)}
            ELSE {[R0 EXCEPT !.info = JxlDecoderInfo(hp[s.handle].stream)]})
         \cup {[R0 EXCEPT !.ok = FALSE]}
    [] s.pc = "version" -> {[R0 EXCEPT !.n = v] : v \in Versions(sc)}
    [] OTHER -> {R0}

---------------------------------------------------------------------------
(* The actions. *)

\* A frame for a call in slot t, and the two reference runs of the same
\* call next to it.
Begin(t, frame) ==
  /\ task' = [task EXCEPT ![t] = frame]
  /\ alone' = [alone EXCEPT ![t] = [t |-> frame, heap |-> EmptyHeap]]
  /\ twin' = [twin EXCEPT ![t] =
                [t |-> [frame EXCEPT !.quiet = ~@], heap |-> EmptyHeap]]
  /\ UNCHANGED <<build, scope, heap, clock, timers>>

\* The caller enters a function.
Enter(t, frame) ==
  /\ t \in Active(scope)
  /\ task[t].pc = "idle"
  /\ Begin(t, frame)

\* The functions the translation unit defines in build b: EncodeJxl and
\* DecodeJxl are inside #if defined(HAS_WEBP2).
Defined(b, fn) ==
  IF fn \in {"EncodeJxl", "DecodeJxl"} THEN b.webp2 ELSE TRUE

CallEncodeJxl(t) ==
  /\ Defined(build, "EncodeJxl")
  /\ \E quiet \in BOOLEAN, image \in Images(scope),
        quality \in Qualities(scope), effort \in Efforts(scope) :
       Enter(t, [IdleTask EXCEPT
                   !.kind = "EncodeJxl",
                   !.pc = IF build.jpegxl THEN "enc_format" ELSE "enc_stub",
                   !.quiet = quiet, !.original_image = image,
                   !.quality = quality, !.effort = effort])

\* DecodeJxl(input, encoded_image, quiet), called under a Timer of the
\* caller.
DecodeFrame(quiet, encoded, stream, source) ==
  [IdleTask EXCEPT
     !.kind = "DecodeJxl",
     !.pc = IF build.jpegxl THEN "dec_make" ELSE "dec_stub",
     !.quiet = quiet, !.encoded_image = encoded,
     !.codestream = stream, !.source = source,
     !.timer = Timer(clock.now)]

CallDecodeJxl(t) ==
  /\ Defined(build, "DecodeJxl")
  /\ \E quiet \in BOOLEAN, encoded \in Payloads(scope) :
       Enter(t, DecodeFrame(quiet, encoded.data, encoded.stream, NoImage))

\* The caller hands the bytes EncodeJxl returned to DecodeJxl.
DecodeEncoded(t) ==
  /\ t \in Active(scope)
  /\ Defined(build, "DecodeJxl")
  /\ task[t].kind = "EncodeJxl" /\ task[t].pc = "done" /\ task[t].result = "ok"
  /\ Begin(t, DecodeFrame(task[t].quiet, task[t].payload, task[t].codestream,
                          task[t].source))

CallJpegXLVersion(t) ==
  /\ Defined(build, "JpegXLVersion")
  /\ Enter(t, [IdleTask EXCEPT
              !.kind = "JpegXLVersion",
              !.pc = IF build.jpegxl THEN "version" ELSE "version_stub"])

CallJpegXLLossyQualities(t) ==
  /\ Defined(build, "JpegXLLossyQualities")
  /\ Enter(t, [IdleTask EXCEPT !.kind = "JpegXLLossyQualities",
                            !.pc = "qualities"])

\* The note of whether a library has reported a failure of its own (r.ok,
\* r.alloc) in the call so far.
Noted(m, r) == [m EXCEPT !.t.faulted = @ \/ ~r.ok \/ ~r.alloc]

\* The call in slot t takes the step Step, the libraries answering r0 and
\* the clock reading clock.now.
Do(t, Step(_, _)) ==
  /\ t \in Active(scope)
  /\ \E r0 \in Responses(task[t], heap, scope) :
       LET r == [r0 EXCEPT !.now = clock.now]
           m == Noted(Step([t |-> task[t], heap |-> heap], r), r)
       IN  /\ task' = [task EXCEPT ![t] = m.t]
           /\ heap' = m.heap
           /\ alone' = [alone EXCEPT ![t] = Noted(Step(@, r), r)]
           /\ twin' = [twin EXCEPT ![t] = Noted(Step(@, r), r)]
  /\ UNCHANGED <<build, scope, clock, timers>>

EncFormat(t) == task[t].pc = "enc_format" /\ Do(t, StepEncFormat)
EncMake(t) == task[t].pc = "enc_make" /\ Do(t, StepEncMake)
EncBasicInfo(t) == task[t].pc = "enc_basic_info" /\ Do(t, StepEncBasicInfo)
EncColor(t) == task[t].pc = "enc_color" /\ Do(t, StepEncColor)
EncFrameSettings(t) == task[t].pc = "enc_frame_settings" /\ Do(t, StepEncFrameSettings)
EncQuality(t) == task[t].pc = "enc_quality" /\ Do(t, StepEncQuality)
EncEffort(t) == task[t].pc = "enc_effort" /\ Do(t, StepEncEffort)
EncAddFrame(t) == task[t].pc = "enc_add_frame" /\ Do(t, StepEncAddFrame)
EncAlloc(t) == task[t].pc = "enc_alloc" /\ Do(t, StepEncAlloc)
EncDrain(t) == task[t].pc = "enc_drain" /\ Do(t, StepEncDrain)
EncFinish(t) == task[t].pc = "enc_finish" /\ Do(t, StepEncFinish)
EncStub(t) == task[t].pc = "enc_stub" /\ Do(t, StepEncStub)
DecMake(t) == task[t].pc = "dec_make" /\ Do(t, StepDecMake)
DecSubscribe(t) == task[t].pc = "dec_subscribe" /\ Do(t, StepDecSubscribe)
DecSetInput(t) == task[t].pc = "dec_set_input" /\ Do(t, StepDecSetInput)
DecProcess1(t) == task[t].pc = "dec_process1" /\ Do(t, StepDecProcess1)
DecGetBasicInfo(t) == task[t].pc = "dec_basic_info" /\ Do(t, StepDecGetBasicInfo)
DecProcess2(t) == task[t].pc = "dec_process2" /\ Do(t, StepDecProcess2)
DecImage(t) == task[t].pc = "dec_image" /\ Do(t, StepDecImage)
DecOutBuffer(t) == task[t].pc = "dec_out_buffer" /\ Do(t, StepDecOutBuffer)
DecProcess3(t) == task[t].pc = "dec_process3" /\ Do(t, StepDecProcess3)
DecProcess4(t) == task[t].pc = "dec_process4" /\ Do(t, StepDecProcess4)
DecStub(t) == task[t].pc = "dec_stub" /\ Do(t, StepDecStub)
Version(t) == task[t].pc = "version" /\ Do(t, StepVersion)
VersionStub(t) == task[t].pc = "version_stub" /\ Do(t, StepVersionStub)
LossyQualities(t) == task[t].pc = "qualities" /\ Do(t, StepQualities)

\* The caller reads its Timer once DecodeJxl has returned.
MeasureTotal(t) ==
  /\ t \in Active(scope)
  /\ task[t].kind = "DecodeJxl" /\ task[t].pc = "done" /\ ~task[t].measured
  /\ LET read(s) == [s EXCEPT !.total = seconds(s.timer, clock.now),
                              !.measured = TRUE]
     IN  /\ task' = [task EXCEPT ![t] = read(@)]
         /\ alone' = [alone EXCEPT ![t].t = read(@)]
         /\ twin' = [twin EXCEPT ![t].t = read(@)]
  /\ UNCHANGED <<build, scope, heap, clock, timers>>

\* The caller takes the result; the slot is free for the next call.
Collect(t) ==
  /\ t \in Active(scope)
  /\ task[t].pc = "done"
  /\ task' = [task EXCEPT ![t] = IdleTask]
  /\ alone' = [alone EXCEPT ![t] = [t |-> IdleTask, heap |-> EmptyHeap]]
  /\ twin' = [twin EXCEPT ![t] = [t |-> IdleTask, heap |-> EmptyHeap]]
  /\ UNCHANGED <<build, scope, heap, clock, timers>>

---------------------------------------------------------------------------
(* The clock, and the Timer objects of a caller. *)

MaxClock == 3       \* the clock reads 0..MaxClock
TimerIds == {1, 2}

NoTimerObject ==
  [live |-> FALSE, timer |-> NoTimer, initial |-> 0,
   reads |-> 0, before |-> 0, last |-> 0]

\* Time passes.
Tick ==
  /\ clock.now < MaxClock
  /\ clock' = [clock EXCEPT !.now = @ + 1]
  /\ UNCHANGED <<build, scope, task, heap, alone, twin, timers>>

\* A clock that is not steady is set back: by the user, by the time daemon.
SetBack ==
  /\ ~clock.is_steady
  /\ \E earlier \in 0..(clock.now - 1) : clock' = [clock EXCEPT !.now = earlier]
  /\ UNCHANGED <<build, scope, task, heap, alone, twin, timers>>

\* Timer timer;
TimerNew(i) ==
  /\ ~timers[i].live
  /\ timers' = [timers EXCEPT ![i] =
                  [NoTimerObject EXCEPT !.live = TRUE,
                                        !.timer = Timer(clock.now),
                                        !.initial = clock.now]]
  /\ UNCHANGED <<build, scope, task, heap, alone, twin, clock>>

\* timer.seconds(): the reading is kept as the last one, the last one as the
\* one before.
TimerSeconds(i) ==
  /\ timers[i].live
  /\ timers' = [timers EXCEPT ![i] =
                  [@ EXCEPT !.before = timers[i].last,
                            !.last = seconds(timers[i].timer, clock.now),
                            !.reads = Min(@ + 1, 2)]]
  /\ UNCHANGED <<build, scope, task, heap, alone, twin, clock>>

---------------------------------------------------------------------------
(* The specifications. *)

Builds == [webp2 : BOOLEAN, jpegxl : BOOLEAN]

\* Under the scopes that follow a call to its end, the backend is there.
BuildsOf(sc) ==
  IF sc \in {"round", "timed", "timer"}
    THEN {[webp2 |-> TRUE, jpegxl |-> TRUE]} ELSE Builds

\* std::chrono::high_resolution_clock is steady or not, by the standard
\* library; where no time is measured the clock stands still.
ClocksOf(sc) ==
  IF sc \in {"timed", "timer"}
    THEN [now : {0}, is_steady : BOOLEAN]
    ELSE {[now |-> 0, is_steady |-> TRUE]}

InitScope(sc) ==
  /\ build \in BuildsOf(sc)
  /\ scope = sc
  /\ task = [t \in Tasks |-> IdleTask]
  /\ heap = EmptyHeap
  /\ alone = [t \in Tasks |-> [t |-> IdleTask, heap |-> EmptyHeap]]
  /\ twin = [t \in Tasks |-> [t |-> IdleTask, heap |-> EmptyHeap]]
  /\ clock \in ClocksOf(sc)
  /\ timers = [i \in TimerIds |-> NoTimerObject]

Init == InitScope("seq")
InitPar == InitScope("par")
InitEnc == InitScope("enc")
InitRound == InitScope("round")
InitTimed == InitScope("timed")
InitTimer == InitScope("timer")

EncodeSteps(t) ==
  \/ EncFormat(t) \/ EncMake(t) \/ EncBasicInfo(t) \/ EncColor(t)
  \/ EncFrameSettings(t) \/ EncQuality(t) \/ EncEffort(t) \/ EncAddFrame(t)
  \/ EncAlloc(t) \/ EncDrain(t) \/ EncFinish(t)

DecodeSteps(t) ==
  \/ DecMake(t) \/ DecSubscribe(t) \/ DecSetInput(t) \/ DecProcess1(t)
  \/ DecGetBasicInfo(t) \/ DecProcess2(t) \/ DecImage(t) \/ DecOutBuffer(t)
  \/ DecProcess3(t) \/ DecProcess4(t)

Next ==
  \E t \in Tasks :
    \/ CallEncodeJxl(t) \/ CallDecodeJxl(t)
    \/ CallJpegXLVersion(t) \/ CallJpegXLLossyQualities(t)
    \/ EncFormat(t) \/ EncMake(t) \/ EncBasicInfo(t) \/ EncColor(t)
    \/ EncFrameSettings(t) \/ EncQuality(t) \/ EncEffort(t) \/ EncAddFrame(t)
    \/ EncAlloc(t) \/ EncDrain(t) \/ EncFinish(t) \/ EncStub(t)
    \/ DecMake(t) \/ DecSubscribe(t) \/ DecSetInput(t) \/ DecProcess1(t)
    \/ DecGetBasicInfo(t) \/ DecProcess2(t) \/ DecImage(t) \/ DecOutBuffer(t)
    \/ DecProcess3(t) \/ DecProcess4(t) \/ DecStub(t)
    \/ Version(t) \/ VersionStub(t) \/ LossyQualities(t)
    \/ Collect(t)

\* EncodeJxl alone, in every build.
NextEnc ==
  \E t \in Tasks :
    CallEncodeJxl(t) \/ EncodeSteps(t) \/ EncStub(t) \/ Collect(t)

\* EncodeJxl, then DecodeJxl of the bytes it returned.
NextRound ==
  \E t \in Tasks :
    CallEncodeJxl(t) \/ EncodeSteps(t) \/ DecodeEncoded(t) \/ DecodeSteps(t)
      \/ Collect(t)

\* DecodeJxl under the caller's Timer, time passing between the steps.
NextTimed ==
  \/ Tick \/ SetBack
  \/ \E t \in Tasks :
       CallDecodeJxl(t) \/ DecodeSteps(t) \/ MeasureTotal(t) \/ Collect(t)

\* Two Timer objects, constructed and read in any order, time passing.
NextTimer ==
  \/ Tick \/ SetBack
  \/ \E i \in TimerIds : TimerNew(i) \/ TimerSeconds(i)

\* One call after the other in one slot.
Spec == Init /\ [][Next]_vars

\* Two slots, the calls in them interleaved step by step.
SpecPar == InitPar /\ [][Next]_vars

SpecEnc == InitEnc /\ [][NextEnc]_vars

\* A call, once entered, runs on: its next step is taken.
SpecEncFair == InitEnc /\ [][NextEnc]_vars /\ WF_vars(\E t \in Tasks : EncodeSteps(t))

SpecRound == InitRound /\ [][NextRound]_vars

SpecTimed == InitTimed /\ [][NextTimed]_vars

SpecTimer == InitTimer /\ [][NextTimer]_vars

---------------------------------------------------------------------------
(* Properties. *)

Running(s) == s.pc \notin {"idle", "done"}
Returned(s, fn) == s.kind = fn /\ s.pc = "done"

ExpectedEvents ==
  <<"JXL_DEC_BASIC_INFO", "JXL_DEC_NEED_IMAGE_OUT_BUFFER",
    "JXL_DEC_FULL_IMAGE", "JXL_DEC_SUCCESS">>

IsPrefix(a, b) == Len(a) <= Len(b) /\ \A i \in 1..Len(a) : a[i] = b[i]

\* C1: DecodeJxl returns success exactly when its four JxlDecoderProcessInput
\* calls answered BASIC_INFO, NEED_IMAGE_OUT_BUFFER, FULL_IMAGE, SUCCESS in
\* this order, and then the image it returns is completely filled; as soon as
\* a call answers anything else at its step, the call has returned a failure
\* and carries no image.
C1_DecodeFollowsEvents ==
  \A t \in Tasks :
    LET s == task[t]
    IN  s.kind = "DecodeJxl" =>
          /\ ~IsPrefix(s.events, ExpectedEvents) => s.pc = "done" /\ s.result = "fail"
          /\ s.pc = "done" /\ build.jpegxl =>
               /\ s.result \in {"ok", "fail"}
               /\ s.result = "ok" <=> s.events = ExpectedEvents
               /\ s.result = "ok" => s.decoded.filled = "full"
               /\ s.result = "fail" => s.decoded = NoImage

\* A truncated payload: the third call asks for more input after the output
\* buffer was bound, and the call has failed.
C1_Witness ==
  \E t \in Tasks :
    /\ Returned(task[t], "DecodeJxl")
    /\ task[t].events = <<"JXL_DEC_BASIC_INFO", "JXL_DEC_NEED_IMAGE_OUT_BUFFER",
                          "JXL_DEC_NEED_MORE_INPUT">>
    /\ task[t].result = "fail"

\* C2: whenever EncodeJxl returns success, the returned buffer has exactly as
\* many bytes as the encoder wrote over all JxlEncoderProcessOutput calls, and
\* every one of them is a written byte.
C2_PayloadLengthIsWritten ==
  \A t \in Tasks :
    Returned(task[t], "EncodeJxl") /\ task[t].result = "ok" =>
      /\ task[t].payload.size = task[t].written
      /\ Len(task[t].payload.bytes) = task[t].payload.size
      /\ \A i \in 1..Len(task[t].payload.bytes) : task[t].payload.bytes[i] # Junk

\* A success after the buffer was doubled, the output split over the calls.
C2_Witness ==
  \E t \in Tasks :
    /\ Returned(task[t], "EncodeJxl") /\ task[t].result = "ok"
    /\ task[t].peak > kInitialSize
    /\ task[t].written > kInitialSize
    /\ task[t].payload.size = task[t].written

\* C3 as stated: over a successful EncodeJxl, the largest length the buffer
\* had is at most twice the number of bytes the encoder ended up writing.
C3_Original ==
  \A t \in Tasks :
    Returned(task[t], "EncodeJxl") /\ task[t].result = "ok" =>
      task[t].peak <= 2 * task[t].written

\* C3, amended: as long as the encoder has asked for more output only after
\* filling all the space it was given, the buffer is never longer than the
\* larger of its initial 64 bytes and twice the bytes written so far.
C3_BufferAtMostTwiceWritten ==
  \A t \in Tasks :
    task[t].kind = "EncodeJxl" /\ ~task[t].slack =>
      /\ task[t].data.size <= Max(kInitialSize, 2 * task[t].written)
      /\ task[t].peak <= Max(kInitialSize, 2 * task[t].written)

\* A success after one doubling, every call having filled its space.
C3_Witness ==
  \E t \in Tasks :
    /\ Returned(task[t], "EncodeJxl") /\ task[t].result = "ok"
    /\ ~task[t].slack
    /\ task[t].peak = 2 * kInitialSize
    /\ task[t].written > kInitialSize

\* C4: a call and the same call with the quiet flag negated, given the same
\* answers of the native libraries, are at the same statement after every
\* step, have made the same native calls with the same arguments, leave the
\* same native state and return the same result; they differ only in what
\* they emitted.
C4_QuietKeepsControlFlow ==
  \A t \in Tasks :
    /\ task[t].pc = "idle" => twin[t].t = IdleTask
    /\ task[t].pc # "idle" =>
         [twin[t].t EXCEPT !.quiet = ~@, !.diagnostics = task[t].diagnostics]
           = task[t]
    /\ scope = "seq" /\ t \in Active(scope) => twin[t].heap = heap

\* A call that failed at the check after the drain loop: one run emitted the
\* diagnostic, the other did not.
C4_Witness ==
  \E t \in Tasks :
    /\ Returned(task[t], "EncodeJxl") /\ task[t].result = "fail"
    /\ task[t].message = "JxlEncoderProcessOutput() failed"
    /\ twin[t].t.result = "fail"
    /\ task[t].diagnostics # twin[t].t.diagnostics

\* C5: a failing EncodeJxl or DecodeJxl has emitted nothing when quiet, and
\* exactly one diagnostic, the failure's message, when not quiet, also at the
\* checks that attach no message; a call that has not failed has emitted
\* nothing.
C5_OneDiagnosticPerFailure ==
  \A t \in Tasks :
    LET s == task[t]
    IN  s.kind \in {"EncodeJxl", "DecodeJxl"} =>
          /\ s.pc = "done" => s.result \in {"ok", "fail"}
          /\ s.result = "fail" =>
               s.diagnostics = IF s.quiet THEN <<>> ELSE <<s.message>>
          /\ s.result # "fail" => s.diagnostics = <<>>

\* A Resize that failed after bytes were written, not quiet: one diagnostic,
\* with no text.
C5_Witness ==
  \E t \in Tasks :
    /\ Returned(task[t], "EncodeJxl") /\ task[t].result = "fail"
    /\ ~task[t].quiet /\ task[t].message = "" /\ task[t].written > 0
    /\ Len(task[t].diagnostics) = 1

\* C6: EncodeJxl on an image that is neither WP2_RGBA_32 nor WP2_RGB_24 makes
\* no native call and holds no handle at any time, and returns a failure
\* whose message is "libjxl requires RGB(A)", with no payload.
C6_UnsupportedFormatFailsAtOnce ==
  \A t \in Tasks :
    LET s == task[t]
    IN  /\ s.kind = "EncodeJxl" /\ build.jpegxl
        /\ s.original_image.format \notin {"WP2_RGBA_32", "WP2_RGB_24"}
        => /\ s.pc \in {"enc_format", "done"}
           /\ s.calls = <<>> /\ s.handle = NullHandle
           /\ scope = "seq" => heap = EmptyHeap
           /\ s.pc = "done" =>
                /\ s.result = "fail" /\ s.message = "libjxl requires RGB(A)"
                /\ s.payload = EmptyData
                /\ ~s.quiet => s.diagnostics = <<"libjxl requires RGB(A)">>

C6_Witness ==
  \E t \in Tasks :
    /\ Returned(task[t], "EncodeJxl") /\ build.jpegxl
    /\ task[t].original_image.format = "WP2_Argb_32"
    /\ task[t].result = "fail" /\ ~task[t].quiet

StubMessage(fn) ==
  IF fn = "EncodeJxl" THEN "Encoding images requires HAS_JPEGXL"
  ELSE "Decoding images requires HAS_JPEGXL"

\* What a build without HAS_JPEGXL does: EncodeJxl and DecodeJxl fail with
\* their fixed message, whatever the input and quiet, make no native call and
\* create no handle; JpegXLVersion returns "n/a".
BackendAbsent ==
  /\ heap = EmptyHeap
  /\ \A t \in Tasks :
       LET s == task[t]
       IN  /\ s.calls = <<>> /\ s.handle = NullHandle
           /\ s.kind \in {"EncodeJxl", "DecodeJxl"} /\ s.pc = "done" =>
                /\ s.result = "fail" /\ s.message = StubMessage(s.kind)
                /\ s.payload = EmptyData /\ s.decoded = NoImage
                /\ s.diagnostics = IF s.quiet THEN <<>> ELSE <<StubMessage(s.kind)>>
           /\ s.kind = "JpegXLVersion" /\ s.pc = "done" =>
                s.version = [NoVersion EXCEPT !.na = TRUE]

\* C7 as stated: in every build without HAS_JPEGXL, EncodeJxl and DecodeJxl
\* are there to be called and behave as above.
C7_Original ==
  ~build.jpegxl =>
    /\ Defined(build, "EncodeJxl") /\ Defined(build, "DecodeJxl")
    /\ BackendAbsent

\* C7, amended: in a build without HAS_JPEGXL, EncodeJxl and DecodeJxl, which
\* are defined exactly when HAS_WEBP2 is, always fail with their fixed
\* message and touch no native handle, and JpegXLVersion returns "n/a"
\* with or without HAS_WEBP2.
C7_StubsFail ==
  /\ \A fn \in {"EncodeJxl", "DecodeJxl"} : Defined(build, fn) <=> build.webp2
  /\ \A t \in Tasks : task[t].kind \in {"EncodeJxl", "DecodeJxl"} => build.webp2
  /\ ~build.jpegxl => BackendAbsent

C7_Witness ==
  /\ build.webp2 /\ ~build.jpegxl
  /\ \E t \in Tasks :
       /\ Returned(task[t], "EncodeJxl") /\ task[t].quiet
       /\ task[t].result = "fail"
       /\ task[t].message = "Encoding images requires HAS_JPEGXL"

\* C8: the live native handles are exactly those held by the calls that are
\* running; a call that has returned, by success or by any failure, holds
\* none; and no two calls hold the same handle.
C8_HandlesReleased ==
  /\ \A h \in Handles :
       heap[h].live <=> \E t \in Tasks : Running(task[t]) /\ task[t].handle = h
  /\ \A t \in Tasks : ~Running(task[t]) => task[t].handle = NullHandle
  /\ \A t1, t2 \in Tasks :
       t1 # t2 /\ task[t1].handle # NullHandle =>
         task[t1].handle # task[t2].handle

\* One call has failed after it had its handle, while the other call runs
\* and holds the only live handle.
C8_Witness ==
  \E t1, t2 \in Tasks :
    /\ t1 # t2
    /\ task[t1].pc = "done" /\ task[t1].result = "fail"
    /\ Len(task[t1].calls) >= 3
    /\ Running(task[t2]) /\ task[t2].handle # NullHandle
    /\ \A h \in Handles : heap[h].live <=> h = task[t2].handle

\* C9: at every step of every interleaving, the frame of each call and the
\* native state of its handle are what they are when the call runs alone
\* with the same answers of the native libraries (the handle's identity
\* apart); so is the result it returns.
C9_SameAsAlone ==
  \A t \in Tasks :
    LET a == alone[t]
    IN  /\ [task[t] EXCEPT !.handle = a.t.handle] = a.t
        /\ task[t].handle = NullHandle <=> a.t.handle = NullHandle
        /\ task[t].handle # NullHandle =>
             heap[task[t].handle] = a.heap[a.t.handle]

\* Two encodes in their drain loops at the same time, both having written.
C9_Witness ==
  \E t1, t2 \in Tasks :
    /\ t1 # t2
    /\ task[t1].pc = "enc_drain" /\ task[t1].written > 0
    /\ task[t2].pc = "enc_drain" /\ task[t2].written > 0

\* C10: JpegXLLossyQualities returns a non-empty, strictly increasing
\* sequence, the integers 0 to 99 one after the other, without
\* kQualityLossless.
C10_LossyQualities ==
  \A t \in Tasks :
    Returned(task[t], "JpegXLLossyQualities") =>
      LET q == task[t].qualities
      IN  /\ Len(q) > 0
          /\ \A i \in 1..(Len(q) - 1) : q[i] < q[i + 1]
          /\ q[1] = 0 /\ q[Len(q)] = 99
          /\ \A i \in 1..(Len(q) - 1) : q[i + 1] = q[i] + 1
          /\ \A i \in 1..Len(q) : q[i] # kQualityLossless

C10_Witness ==
  \E t \in Tasks :
    /\ Returned(task[t], "JpegXLLossyQualities")
    /\ Len(task[t].qualities) = kNumQualities

\* The lossy quality identifiers: what JpegXLLossyQualities returns.
LossyQualityIds == {Iota(kNumQualities, 0)[i] : i \in 1..kNumQualities}

\* EncodeJxl has returned in slot t, for a lossy quality and an image of a
\* format libjxl takes, in a build with the backend.
LossyEncodeReturned(t) ==
  /\ Returned(task[t], "EncodeJxl") /\ build.jpegxl
  /\ SupportedByLibjxl(task[t].original_image.format)
  /\ task[t].quality \in LossyQualityIds

LosslessRoundTrip(t) ==
  /\ Returned(task[t], "DecodeJxl") /\ build.jpegxl
  /\ task[t].source # NoImage
  /\ task[t].source.format \in {"WP2_RGB_24", "WP2_RGBA_32"}
  /\ task[t].codestream.lossless

\* The image DecodeJxl returned is the caller's: format, size and samples.
SameImage(decoded, source) ==
  /\ decoded.format = source.format
  /\ decoded.width = source.width /\ decoded.height = source.height
  /\ decoded.filled = "full"
  /\ decoded.pixels = source.pixels

TimerReadingsOrdered(i) ==
  /\ timers[i].timer.start_ = timers[i].initial
  /\ timers[i].reads >= 1 => timers[i].last >= 0
  /\ timers[i].reads >= 2 =>
       timers[i].before >= 0 /\ timers[i].last >= timers[i].before

\* C13 as stated: every reading of a Timer is non-negative and leaves the
\* start instant as it was, and successive readings of one Timer never
\* decrease, also when another Timer is constructed and read in between.
C13_Original ==
  \A i \in TimerIds : timers[i].live => TimerReadingsOrdered(i)

\* What is left of C13 where high_resolution_clock is a steady clock.
C13_SteadyClockOnly ==
  clock.is_steady => \A i \in TimerIds : timers[i].live => TimerReadingsOrdered(i)

\* Two readings of one Timer with the other Timer constructed and read
\* after the first of them.
C13_Nested ==
  /\ timers[1].live /\ timers[1].reads >= 2
  /\ timers[2].live /\ timers[2].reads >= 1
  /\ timers[2].initial > timers[1].initial
  /\ timers[1].last > timers[1].before

\* DecodeJxl has returned success in slot t and the caller has read the Timer
\* it started before the call.
DecodeMeasured(t) ==
  /\ Returned(task[t], "DecodeJxl") /\ task[t].result = "ok"
  /\ task[t].measured

\* C14 as stated: on every successful DecodeJxl the color-conversion duration
\* it reports is at least 0 and at most the duration of the whole call as
\* measured by a Timer of the caller around it.
C14_Original ==
  \A t \in Tasks :
    DecodeMeasured(t) =>
      task[t].duration >= 0 /\ task[t].duration <= task[t].total

\* What is left of C14 where high_resolution_clock is a steady clock.
C14_SteadyClockOnly ==
  clock.is_steady =>
    \A t \in Tasks :
      DecodeMeasured(t) =>
        task[t].duration >= 0 /\ task[t].duration <= task[t].total

\* Time has passed before the full image, between it and the final event,
\* and after the return: the sub-phase is a proper part of the whole.
C14_Nested ==
  \E t \in Tasks :
    /\ DecodeMeasured(t)
    /\ task[t].duration > 0 /\ task[t].total >= task[t].duration + 2

\* The last native call or buffer operation a call has made so far.
LastCall(s) == IF s.calls = <<>> THEN "none" ELSE s.calls[Len(s.calls)].fn

\* The operation each check examines, by the message of the check: the call
\* made just before it.  The status of JxlEncoderProcessOutput is examined
\* after the Resize that cuts the buffer; a Resize has no message.
CheckedCall(message) ==
  CASE message = "libjxl requires RGB(A)" -> {"none"}
    [] message \in {"Encoding images requires HAS_JPEGXL",
                    "Decoding images requires HAS_JPEGXL"} -> {"none"}
    [] message = "JxlEncoderMake() failed" -> {"JxlEncoderMake"}
    [] message = "JxlEncoderSetBasicInfo() failed" -> {"JxlEncoderSetBasicInfo"}
    [] message = "JxlEncoderSetColorEncoding() failed" ->
         {"JxlEncoderSetColorEncoding"}
    [] message = "JxlEncoderFrameSettingsCreate() returned null" ->
         {"JxlEncoderFrameSettingsCreate"}
    [] message = "JxlEncoderSetFrameLossless() failed" ->
         {"JxlEncoderSetFrameLossless"}
    [] message = "JxlEncoderSetFrameDistance() failed" ->
         {"JxlEncoderSetFrameDistance"}
    [] message = "JxlEncoderFrameSettingsSetOption(effort) failed" ->
         {"JxlEncoderFrameSettingsSetOption"}
    [] message = "JxlEncoderAddImageFrame() failed" -> {"JxlEncoderAddImageFrame"}
    [] message = "JxlEncoderProcessOutput() failed" -> {"WP2::Data::Resize"}
    [] message = "" -> {"WP2::Data::Resize", "WP2::ArgbBuffer::Resize"}
    [] message = "JxlDecoderMake() failed" -> {"JxlDecoderMake"}
    [] message = "JxlDecoderSubscribeEvents() failed" ->
         {"JxlDecoderSubscribeEvents"}
    [] message = "JxlDecoderSetInput() failed" -> {"JxlDecoderSetInput"}
    [] message = "JxlDecoderGetBasicInfo() failed" -> {"JxlDecoderGetBasicInfo"}
    [] message = "JxlDecoderSetImageOutBuffer() failed" ->
         {"JxlDecoderSetImageOutBuffer"}
    [] message \in
         {"First call to JxlDecoderProcessInput() unexpectedly returned",
          "Second call to JxlDecoderProcessInput() unexpectedly returned",
          "Third call to JxlDecoderProcessInput() unexpectedly returned",
          "Third call to JxlDecoderProcessInput() failed"} ->
         {"JxlDecoderProcessInput"}
    [] OTHER -> {}

\* The checks on the path of a call that returns success: eleven in
\* EncodeJxl and one more for each time the buffer was grown, ten in
\* DecodeJxl.
ChecksOnPath(s) ==
  IF s.kind = "EncodeJxl"
    THEN 11 + Cardinality({i \in 1..Len(s.events) :
                             s.events[i] = "JXL_ENC_NEED_MORE_OUTPUT"})
    ELSE 10

\* What holds of the checks of a call s whichever operations it made: only
\* the last check made can have failed; when it has, the call has returned
\* failure with nothing to hand back; a call that returned failure has a
\* failed check; a call that returned success passed every check on its
\* path, none of the libraries having reported a failure.
FirstFailureReturns(s) ==
  LET n == Len(s.checks)
  IN  /\ \A i \in 1..(n - 1) : s.checks[i]
      /\ (n > 0 /\ ~s.checks[n]) =>
           /\ s.pc = "done" /\ s.result = "fail"
           /\ s.payload = EmptyData /\ s.decoded = NoImage
           /\ s.handle = NullHandle
      /\ s.result = "fail" => n > 0 /\ ~s.checks[n]
      /\ s.result = "ok" =>
           /\ s.pc = "done"
           /\ \A i \in 1..n : s.checks[i]
           /\ n = ChecksOnPath(s)
           /\ ~s.faulted

\* The messages that carry the error code of the encoder.
WithErrorCode ==
  {"JxlEncoderSetBasicInfo() failed", "JxlEncoderSetColorEncoding() failed",
   "JxlEncoderSetFrameLossless() failed", "JxlEncoderSetFrameDistance() failed",
   "JxlEncoderFrameSettingsSetOption(effort) failed",
   "JxlEncoderAddImageFrame() failed", "JxlEncoderProcessOutput() failed"}

\* C15 as stated: in EncodeJxl and DecodeJxl the first check that fails ends
\* the call: no native call and no buffer operation is made after a failed
\* check (the last operation made is the one the check examined), the call
\* returns failure, and success is returned only if every check passed.
C15_Original ==
  \A t \in Tasks :
    LET s == task[t]
    IN  s.kind \in {"EncodeJxl", "DecodeJxl"} =>
          /\ FirstFailureReturns(s)
          /\ s.result = "fail" => LastCall(s) \in CheckedCall(s.message)

\* C15, amended: in EncodeJxl and DecodeJxl the first check that fails ends
\* the call with a failure, and success is returned only if every check on
\* the path passed; after a failed check no buffer operation is made and no
\* native call either, but for one JxlEncoderGetError that reads the error
\* code for the message of a failed encoder status check: it is the last
\* call then, and the one before it is the call the check examined.
C15_FirstFailureEnds ==
  \A t \in Tasks :
    LET s == task[t]
        c == Len(s.calls)
    IN  s.kind \in {"EncodeJxl", "DecodeJxl"} =>
          /\ FirstFailureReturns(s)
          /\ \A i \in 1..(c - 1) : s.calls[i].fn # "JxlEncoderGetError"
          /\ LastCall(s) = "JxlEncoderGetError" =>
               /\ s.kind = "EncodeJxl" /\ s.result = "fail"
               /\ s.message \in WithErrorCode
               /\ c > 1 /\ s.calls[c - 1].fn \in CheckedCall(s.message)
          /\ s.result = "fail" /\ LastCall(s) # "JxlEncoderGetError" =>
               /\ s.message \notin WithErrorCode
               /\ LastCall(s) \in CheckedCall(s.message)

\* EncodeJxl has stopped at its eighth check: JxlEncoderAddImageFrame, then
\* the reading of the error code, are the last calls it made.
C15_Witness ==
  \E t \in Tasks :
    /\ Returned(task[t], "EncodeJxl") /\ task[t].result = "fail"
    /\ Len(task[t].checks) = 8 /\ ~task[t].checks[8]
    /\ LastCall(task[t]) = "JxlEncoderGetError"
    /\ task[t].calls[Len(task[t].calls) - 1].fn = "JxlEncoderAddImageFrame"

\* The call in slot t is in the output drain loop of EncodeJxl.
InDrainLoop(t) == task[t].kind = "EncodeJxl" /\ task[t].pc = "enc_drain"

\* The capacity of the buffer in the loop: 64 times a power of two, never 0;
\* and when the codec asked for more only with the buffer full, the loop is
\* still running only because half of it did not hold the output.
DrainCapacity(t) ==
  /\ task[t].data.size > 0
  /\ \E j \in 0..MaxGrow : task[t].data.size = kInitialSize * Pow2(j)
  /\ ~task[t].slack /\ task[t].data.size > kInitialSize =>
       task[t].data.size \div 2 < heap[task[t].handle].stream.n

\* One more iteration of the loop: the codec has answered NEED_MORE_OUTPUT,
\* the Resize has succeeded, and the buffer is twice what it was, which is
\* more than it was.
DrainIteration(t) ==
  InDrainLoop(t) /\ task'[t].pc = "enc_drain" /\ task'[t] # task[t] =>
    /\ task'[t].status = "JXL_ENC_NEED_MORE_OUTPUT"
    /\ LastCall(task'[t]) = "WP2::Data::Resize"
    /\ task'[t].data.size = 2 * task[t].data.size
    /\ task'[t].data.size > task[t].data.size

\* The loop is left at the first failing Resize or the first status other
\* than NEED_MORE_OUTPUT.
DrainExit(t) ==
  InDrainLoop(t) /\ task'[t].pc # "enc_drain" =>
    \/ /\ task'[t].pc = "enc_finish"
       /\ task'[t].status # "JXL_ENC_NEED_MORE_OUTPUT"
    \/ /\ task'[t].pc = "done" /\ task'[t].result = "fail"
       /\ task'[t].message = ""
       /\ LastCall(task'[t]) = "WP2::Data::Resize"

Draining(t) ==
  task[t].kind = "EncodeJxl" /\ task[t].pc \in {"enc_drain", "enc_finish"}

\* The write offset and the space left add up to the buffer, the offset is
\* within it, and the bytes below the offset are the bytes the codec has
\* handed out so far, in order.
DrainOffsets(t) ==
  LET s == task[t]
  IN  /\ s.next_out + s.avail_out = s.data.size
      /\ s.next_out <= s.data.size
      /\ s.next_out = heap[s.handle].produced
      /\ Len(s.data.bytes) >= s.next_out
      /\ SubSeq(s.data.bytes, 1, s.next_out) = StreamBytes(s.next_out)

\* A step of the loop, growth included, leaves the bytes below the offset as
\* they were and moves the offset by what was written at it, never back.
DrainKeeps(t) ==
  Draining(t) /\ task'[t].kind = "EncodeJxl"
      /\ task'[t].pc \in {"enc_drain", "enc_finish"} =>
    /\ task'[t].next_out >= task[t].next_out
    /\ task'[t].next_out - task[t].next_out
         = task'[t].written - task[t].written
    /\ SubSeq(task'[t].data.bytes, 1, task[t].next_out)
         = SubSeq(task[t].data.bytes, 1, task[t].next_out)
    /\ task'[t].data.size >= task[t].data.size

\* C17: throughout the output drain loop of EncodeJxl the write offset plus
\* the available space is the buffer length and the offset is within the
\* buffer; each step of the loop, a growth of the buffer included, keeps the
\* bytes already written below the offset and resumes at the first unwritten
\* offset, so the bytes below the offset are always the codec's output so
\* far.
C17_DrainKeepsWhatIsWritten ==
  /\ [](\A t \in Tasks : Draining(t) => DrainOffsets(t))
  /\ [][\A t \in Tasks : DrainKeeps(t)]_vars

\* The buffer has been grown with 64 bytes written in it, and the loop goes
\* on at offset 64.
C17_Witness ==
  \E t \in Tasks :
    /\ Draining(t) /\ task[t].pc = "enc_drain"
    /\ task[t].data.size = 2 * kInitialSize
    /\ task[t].next_out = kInitialSize /\ task[t].avail_out = kInitialSize

\* The places of the calls named fn in the history of a call.
CallsOf(s, fn) == {i \in 1..Len(s.calls) : s.calls[i].fn = fn}

\* The calls named fn are all made after one call named first.
After(s, fn, first) ==
  \A i \in CallsOf(s, fn) : \E j \in CallsOf(s, first) : j < i

\* The destination image of a DecodeJxl that has it: the size and the alpha
\* the basic info gave.
ImageFromInfo(s) ==
  /\ s.image.width = s.info.xsize /\ s.image.height = s.info.ysize
  /\ WP2FormatHasAlpha(s.image.format) <=> s.info.alpha_bits > 0
  /\ s.image.format \in {"WP2_RGB_24", "WP2_RGBA_32"}

\* C18: in DecodeJxl the destination image is allocated only after
\* JxlDecoderGetBasicInfo has succeeded, with the width and height it
\* reported and with alpha exactly when the reported alpha bits are above 0;
\* it is handed to the decoder by a JxlDecoderSetImageOutBuffer that has
\* succeeded before the third JxlDecoderProcessInput, the one that asks for
\* the image data, so that no image data is asked for with no buffer bound.
C18_ImageBoundBeforeData ==
  \A t \in Tasks :
    LET s == task[t]
    IN  s.kind = "DecodeJxl" =>
          \* allocated only after the basic info, which was checked
          /\ After(s, "WP2::ArgbBuffer::Resize", "JxlDecoderGetBasicInfo")
          /\ \A i \in CallsOf(s, "WP2::ArgbBuffer::Resize") :
               /\ s.pc # "done" => s.calls[i].args = <<s.info.xsize, s.info.ysize>>
               /\ Len(s.checks) >= 5 /\ s.checks[5]
          /\ s.image # NoImage =>
               /\ s.pc \in {"dec_out_buffer", "dec_process3", "dec_process4"}
               /\ ImageFromInfo(s)
               /\ CallsOf(s, "JxlDecoderGetBasicInfo") # {}
          /\ s.pc \notin {"dec_out_buffer", "dec_process3", "dec_process4"} =>
               s.image = NoImage
          \* bound, with success, before the image data is asked for
          /\ After(s, "JxlDecoderSetImageOutBuffer", "WP2::ArgbBuffer::Resize")
          /\ s.pc \in {"dec_process3", "dec_process4"} => heap[s.handle].bound
          /\ Len(s.events) >= 3 =>
               /\ CallsOf(s, "JxlDecoderSetImageOutBuffer") # {}
               /\ \A j \in CallsOf(s, "JxlDecoderSetImageOutBuffer") :
                    /\ Cardinality({i \in CallsOf(s, "JxlDecoderProcessInput") :
                                      i < j}) = 2
                    /\ Len(s.checks) >= 8 /\ s.checks[8]
          /\ \A h \in Handles :
               heap[h].bound =>
                 \E u \in Tasks : task[u].handle = h /\ task[u].image # NoImage

\* An image with alpha, one pixel wide and two high as the basic info said,
\* is bound and the image data is about to be asked for.
C18_Witness ==
  \E t \in Tasks :
    /\ task[t].kind = "DecodeJxl" /\ task[t].pc = "dec_process3"
    /\ task[t].info = [xsize |-> 1, ysize |-> 2, alpha_bits |-> 8]
    /\ task[t].image.format = "WP2_RGBA_32"
    /\ task[t].image.width = 1 /\ task[t].image.height = 2
    /\ heap[task[t].handle].bound

\* The calls that choose the quality mode of the frame.
ModeCalls(s) ==
  CallsOf(s, "JxlEncoderSetFrameLossless") \cup CallsOf(s, "JxlEncoderSetFrameDistance")

\* C19: EncodeJxl chooses one quality mode per call, never two: when the
\* quality is the lossless sentinel it sets the original-profile flag in the
\* basic info and the lossless mode of the frame, and never a distance; for
\* every other quality it sets the distance mapped from that quality, leaves
\* the original-profile flag off and never sets the lossless mode; in both
\* cases it then sets the effort option to the task's effort; and the pixel
\* buffer is submitted only after the mode and the effort were set, each
\* with success.
C19_OneQualityMode ==
  \A t \in Tasks :
    LET s == task[t]
        lossless == s.quality = kQualityLossless
    IN  s.kind = "EncodeJxl" =>
          /\ Cardinality(ModeCalls(s)) <= 1
          /\ \A i \in CallsOf(s, "JxlEncoderSetBasicInfo") :
               s.calls[i].args[4] = Bit(lossless)
          /\ IF lossless
               THEN /\ CallsOf(s, "JxlEncoderSetFrameDistance") = {}
                    /\ \A i \in CallsOf(s, "JxlEncoderSetFrameLossless") :
                         s.calls[i].args = <<1>>
               ELSE /\ CallsOf(s, "JxlEncoderSetFrameLossless") = {}
                    /\ \A i \in CallsOf(s, "JxlEncoderSetFrameDistance") :
                         s.calls[i].args =
                           <<JxlEncoderDistanceFromQuality(s.quality)>>
          /\ \A i \in CallsOf(s, "JxlEncoderFrameSettingsSetOption") :
               /\ s.calls[i].args = <<s.effort>>
               /\ i - 1 \in ModeCalls(s)
          /\ Cardinality(CallsOf(s, "JxlEncoderFrameSettingsSetOption")) <= 1
          /\ \A i \in CallsOf(s, "JxlEncoderAddImageFrame") :
               /\ i - 1 \in CallsOf(s, "JxlEncoderFrameSettingsSetOption")
               /\ i - 2 \in ModeCalls(s)
               /\ Len(s.checks) >= 7 /\ s.checks[6] /\ s.checks[7]
          /\ s.pc \in {"enc_add_frame", "enc_alloc", "enc_drain", "enc_finish"}
               \/ s.result = "ok" =>
               /\ Cardinality(ModeCalls(s)) = 1
               /\ Cardinality(CallsOf(s, "JxlEncoderFrameSettingsSetOption")) = 1
          /\ s.pc \in {"enc_add_frame", "enc_alloc", "enc_drain", "enc_finish"} =>
               /\ heap[s.handle].lossless = lossless
               /\ ~lossless =>
                    heap[s.handle].distance
                      = JxlEncoderDistanceFromQuality(s.quality)

\* A lossy frame at quality 30 and effort 1 has been encoded: the distance
\* was set, then the effort, then the pixels were submitted.
C19_Witness ==
  \E t \in Tasks :
    /\ Returned(task[t], "EncodeJxl") /\ task[t].result = "ok"
    /\ task[t].quality = 30 /\ task[t].effort = 1
    /\ \E i \in CallsOf(task[t], "JxlEncoderSetFrameDistance") :
         /\ task[t].calls[i].args = <<JxlEncoderDistanceFromQuality(30)>>
         /\ task[t].calls[i + 1] =
              [fn |-> "JxlEncoderFrameSettingsSetOption", args |-> <<1>>]
         /\ task[t].calls[i + 2].fn = "JxlEncoderAddImageFrame"

\* EncodeJxl has returned in slot t after it left the drain loop: the last
\* JxlEncoderProcessOutput answered something else than NEED_MORE_OUTPUT.
DrainedAndReturned(t) ==
  /\ Returned(task[t], "EncodeJxl")
  /\ task[t].events # <<>>
  /\ task[t].events[Len(task[t].events)] # "JXL_ENC_NEED_MORE_OUTPUT"

\* The Resize that cuts the buffer to the bytes written was called, as the
\* last buffer operation of the call.
Truncated(s) ==
  \E i \in CallsOf(s, "WP2::Data::Resize") :
    /\ s.calls[i].args = <<s.written, 1>>
    /\ i - 1 \in CallsOf(s, "JxlEncoderProcessOutput")
    /\ \A j \in (i + 1)..Len(s.calls) : s.calls[j].fn = "JxlEncoderGetError"

\* C20: when the last status of JxlEncoderProcessOutput after the drain loop
\* is not SUCCESS, EncodeJxl returns a failure and no byte buffer, though
\* the buffer was cut to the written length before that status was looked
\* at; and when the Resize that cuts the buffer fails, EncodeJxl returns a
\* failure even when the last status was SUCCESS: success is returned
\* only when the last status is SUCCESS and the Resize has succeeded.
C20_LastStatusDecides ==
  \A t \in Tasks :
    LET s == task[t]
        last == s.events[Len(s.events)]
    IN  DrainedAndReturned(t) =>
          /\ Truncated(s)
          /\ last # "JXL_ENC_SUCCESS" =>
               /\ s.result = "fail" /\ s.payload = EmptyData
               /\ s.message \in {"", "JxlEncoderProcessOutput() failed"}
               /\ s.message = "" => LastCall(s) = "WP2::Data::Resize"
          /\ last = "JXL_ENC_SUCCESS" /\ s.result = "fail" =>
               /\ s.message = "" /\ LastCall(s) = "WP2::Data::Resize"
               /\ s.payload = EmptyData /\ s.faulted
          /\ s.result = "ok" =>
               /\ last = "JXL_ENC_SUCCESS" /\ ~s.faulted
               /\ s.payload.size = s.written

\* The codec's last status was an error after it had written bytes: the
\* buffer was cut to them, and EncodeJxl has returned the failure and no
\* buffer.
C20_Witness ==
  \E t \in Tasks :
    /\ DrainedAndReturned(t)
    /\ task[t].events[Len(task[t].events)] = "JXL_ENC_ERROR"
    /\ task[t].written > kInitialSize /\ Truncated(task[t])
    /\ task[t].result = "fail" /\ task[t].payload = EmptyData
    /\ task[t].message = "JxlEncoderProcessOutput() failed"

====
